---- MODULE Spec2Model ----
(***************************************************************************)
(* mkv-submerge: the batch runner of the run / export / to-srt commands,   *)
(* the per-file jobs, the mux and extract protocols and the filesystem     *)
(* they act on.                                                            *)
(*                                                                         *)
(* A path is <<dir, name>>: dir a sequence of directory components as      *)
(* spelled, name the file name split at its dots.  pathlib compares paths  *)
(* textually, so = on paths is the code's ==; Canon gives the file a path  *)
(* denotes.  fs maps the canonical path of every existing file to its      *)
(* content; dirs is the set of existing directories.                       *)
(***************************************************************************)
EXTENDS Integers, Sequences, FiniteSets, TLC

\* ---------------------------------------------------------------- bounds
NumFiles == 2
MaxWorkers == 2
\* The failures of external calls (a probe, MKVFile, mkvmerge, a move, an
\* extraction, a conversion) one command run meets.
MaxFaults == 2

Files == 1..NumFiles

\* ------------------------------------------------------- language_utils.py
LANGUAGE_MAPPING ==
  [ ru |-> {"ru", "rus", "russian"},
    en |-> {"en", "eng", "english"},
    ja |-> {"ja", "jpn", "japanese"},
    de |-> {"de", "ger", "deu", "german"},
    fr |-> {"fr", "fre", "fra", "french"},
    es |-> {"es", "spa", "spanish"},
    it |-> {"it", "ita", "italian"},
    pt |-> {"pt", "por", "portuguese"},
    zh |-> {"zh", "chi", "zho", "chinese"},
    ko |-> {"ko", "kor", "korean"},
    ar |-> {"ar", "ara", "arabic"},
    he |-> {"he", "heb", "hebrew"},
    hi |-> {"hi", "hin", "hindi"},
    th |-> {"th", "tha", "thai"},
    tr |-> {"tr", "tur", "turkish"},
    pl |-> {"pl", "pol", "polish"},
    nl |-> {"nl", "dut", "nld", "dutch"},
    sv |-> {"sv", "swe", "swedish"},
    no |-> {"no", "nor", "norwegian"},
    da |-> {"da", "dan", "danish"},
    fi |-> {"fi", "fin", "finnish"},
    cs |-> {"cs", "cze", "ces", "czech"},
    sk |-> {"sk", "slo", "slk", "slovak"},
    hu |-> {"hu", "hun", "hungarian"},
    ro |-> {"ro", "rum", "ron", "romanian"},
    bg |-> {"bg", "bul", "bulgarian"},
    hr |-> {"hr", "hrv", "croatian"},
    sr |-> {"sr", "srp", "serbian"},
    uk |-> {"uk", "ukr", "ukrainian"} ]

\* str.lower() on the identifiers the model uses.
Lower(s) ==
  CASE s = "RU" -> "ru"
    [] s = "Rus" -> "rus"
    [] s = "RUS" -> "rus"
    [] s = "EN" -> "en"
    [] s = "Eng" -> "eng"
    [] s = "ENG" -> "eng"
    [] OTHER -> s

\* is_language_match without the scan of all alias sets: a request that is
\* no primary key matches nothing but itself.
is_language_match_KeyOnly(requested_lang, track_lang) ==
  IF track_lang = "" THEN FALSE
  ELSE LET requested_lower == Lower(requested_lang)
           track_lower == Lower(track_lang)
       IN  IF requested_lower = track_lower THEN TRUE
           ELSE IF requested_lower \in DOMAIN LANGUAGE_MAPPING
                THEN track_lower \in LANGUAGE_MAPPING[requested_lower]
                ELSE FALSE

\* is_language_match without the two lower() calls.
is_language_match_NoLower(requested_lang, track_lang) ==
  IF track_lang = "" THEN FALSE
  ELSE IF requested_lang = track_lang THEN TRUE
  ELSE IF requested_lang \in DOMAIN LANGUAGE_MAPPING
       THEN track_lang \in LANGUAGE_MAPPING[requested_lang]
       ELSE \E key \in DOMAIN LANGUAGE_MAPPING :
               /\ requested_lang \in LANGUAGE_MAPPING[key]
               /\ track_lang \in LANGUAGE_MAPPING[key]

\* "" stands for None / the empty string (both falsy).
is_language_match(requested_lang, track_lang) ==
  IF track_lang = "" THEN FALSE
  ELSE LET requested_lower == Lower(requested_lang)
           track_lower == Lower(track_lang)
       IN  IF requested_lower = track_lower THEN TRUE
           ELSE IF requested_lower \in DOMAIN LANGUAGE_MAPPING
                THEN track_lower \in LANGUAGE_MAPPING[requested_lower]
                ELSE \E key \in DOMAIN LANGUAGE_MAPPING :
                        /\ requested_lower \in LANGUAGE_MAPPING[key]
                        /\ track_lower \in LANGUAGE_MAPPING[key]

\* has_language_in_set by plain membership, without the alias table.
has_language_in_set_Exact(requested_lang, lang_set) ==
  requested_lang \in lang_set

has_language_in_set(requested_lang, lang_set) ==
  \E existing_lang \in lang_set : is_language_match(requested_lang, existing_lang)

\* ------------------------------------------------------- mkv_operations.py
CODEC_TO_EXTENSION ==
  ("S_TEXT/UTF8" :> "srt") @@ ("S_TEXT/ASS" :> "ass") @@ ("S_TEXT/SSA" :> "ssa") @@
  ("S_TEXT/WEBVTT" :> "vtt") @@ ("S_HDMV/PGS" :> "sup") @@ ("S_DVBSUB" :> "sub") @@
  ("S_VOBSUB" :> "sub") @@ ("S_TEXT/USF" :> "usf") @@ ("S_KATE" :> "kate") @@
  ("SubStationAlpha" :> "ass") @@ ("SubRip/SRT" :> "srt") @@ ("WEBVTT" :> "vtt") @@
  ("HDMV PGS" :> "sup") @@ ("DVB subtitles" :> "sub") @@ ("VobSub" :> "sub")

SUBTITLE_EXTENSIONS == <<"srt", "ass", "ssa", "vtt", "sup", "sub", "usf", "kate">>

\* ------------------------------------------------------------------ paths
NoPath == <<>>
RootDir == <<"root">>
\* The root directory under another spelling (absolute against relative, a
\* "x/../root"): a different Path, the same directory.
RootAliasDir == <<"rootAlias">>
OutDir == <<"out">>
\* tempfile.gettempdir()
TmpDir == <<"tmp">>

CanonDir(d) ==
  IF d # <<>> /\ Head(d) = "rootAlias" THEN <<"root">> \o Tail(d) ELSE d

Canon(p) == <<CanonDir(p[1]), p[2]>>

\* Path.with_suffix(""): the name without its last suffix.
Stem(name) == SubSeq(name, 1, Len(name) - 1)

\* Path.with_suffix(suffix), suffix a sequence of dot-separated parts.
with_suffix(p, suffix) == <<p[1], Stem(p[2]) \o suffix>>

IsPrefix(s, t) == Len(s) <= Len(t) /\ SubSeq(t, 1, Len(s)) = s

\* The directories mkdir(parents=True, exist_ok=True) leaves existing.
Mkdir(ds, d) == ds \cup {CanonDir(SubSeq(d, 1, n)) : n \in 1..Len(d)}

Exists(files, p) == Canon(p) \in DOMAIN files

Remove(files, p) == [q \in (DOMAIN files) \ {Canon(p)} |-> files[q]]

WriteFile(files, p, content) ==
  [q \in (DOMAIN files) \cup {Canon(p)} |-> IF q = Canon(p) THEN content ELSE files[q]]

\* ------------------------------------------------------------ the file tree
\* The enumerated files, numbered in natsorted order (cli.py: natsorted(rglob)):
\*   root/s1/m.alt.<ext>, root/s1/m.<ext>, root/s2/m.alt.<ext>, root/s2/m.<ext>, ...
FileDir(i) == RootDir \o <<"s" \o ToString((i + 1) \div 2)>>

FileStem(i) == IF i % 2 = 1 THEN <<"m", "alt">> ELSE <<"m">>

MkvPath(i) == <<FileDir(i), FileStem(i) \o <<"mkv">>>>

AssPath(i) == <<FileDir(i), FileStem(i) \o <<"ass">>>>

\* ------------------------------------------------------- files and tracks
\* A file's content: the tracks of a container (empty for any other file),
\* who wrote it (0: it was there before the command started) and whether it
\* is a complete file of its kind.
Content(kind, tracks, by, whole) ==
  [kind |-> kind, tracks |-> tracks, by |-> by, whole |-> whole]

Track(id, type, language, codec, name) ==
  [track_id |-> id, track_type |-> type, language |-> language,
   track_codec |-> codec, track_name |-> name]

NoTrack == Track(-1, "", "", "", "")

VideoTrack == Track(0, "video", "und", "V_MPEG4/ISO/AVC", "")

\* The containers run and export may meet: no subtitle track, a "ru" one or
\* an "en" one (to-srt reads no container).
TrackOptions(cmd) ==
  { <<VideoTrack>>,
    <<VideoTrack, Track(1, "subtitles", "ru", "S_TEXT/UTF8", "")>> } \cup
  (IF cmd \in {"run", "export"}
   THEN { <<VideoTrack, Track(1, "subtitles", "en", "S_TEXT/ASS", "")>> }
   ELSE {}) \cup
  (IF cmd = "export"
   THEN { <<VideoTrack, Track(1, "subtitles", "ru", "S_TEXT/UTF8", ""),
            Track(2, "subtitles", "en", "S_TEXT/ASS", "")>> }
   ELSE {})

\* probe_subtitle_languages on a readable container.
ProbedLanguages(content) ==
  { Lower(content.tracks[n].language) :
      n \in { n \in DOMAIN content.tracks :
                /\ content.tracks[n].track_type = "subtitles"
                /\ content.tracks[n].language # "" } }

\* natsort's key of one dot-separated part: its text, then its number.
TextRank(t) ==
  CASE t = "alt" -> 1 [] t = "m" -> 2 [] t = "part" -> 3 [] OTHER -> 4

\* The key of a sort that compares digits as text: "part10" before "part2".
TokenKeyLexical(tok) ==
  CASE tok = "part1" -> <<TextRank("part"), 1>>
    [] tok = "part10" -> <<TextRank("part"), 2>>
    [] tok = "part2" -> <<TextRank("part"), 3>>
    [] OTHER -> <<TextRank(tok), 0>>

TokenKey(tok) ==
  CASE tok = "part1" -> <<TextRank("part"), 1>>
    [] tok = "part2" -> <<TextRank("part"), 2>>
    [] tok = "part10" -> <<TextRank("part"), 10>>
    [] OTHER -> <<TextRank(tok), 0>>

KeyLess(a, b) == a[1] < b[1] \/ (a[1] = b[1] /\ a[2] < b[2])

RECURSIVE NatLess(_, _)
NatLess(a, b) ==
  IF a = <<>> THEN b # <<>>
  ELSE IF b = <<>> THEN FALSE
  ELSE IF TokenKey(Head(a)) = TokenKey(Head(b)) THEN NatLess(Tail(a), Tail(b))
  ELSE KeyLess(TokenKey(Head(a)), TokenKey(Head(b)))

\* natsorted(candidates)[0]
NatSortFirst(S) == CHOOSE p \in S : \A q \in S : ~NatLess(q[2], p[2])

\* mkv_path.parent.glob(f"{stem}.*.{lang}{ext}")
GlobCandidates(files, dir, stem, lang, ext) ==
  { <<dir, q[2]>> :
      q \in { q \in DOMAIN files :
                /\ q[1] = CanonDir(dir)
                /\ Len(q[2]) >= Len(stem) + 3
                /\ IsPrefix(stem, q[2])
                /\ q[2][Len(q[2]) - 1] = lang
                /\ q[2][Len(q[2])] = ext } }

find_srt_file(files, mkv_path, check_lang) ==
  IF check_lang = "" THEN NoPath
  ELSE LET lang == Lower(check_lang)
           stem == Stem(mkv_path[2])
           exact(ext) == with_suffix(mkv_path, <<lang, ext>>)
           candidates(ext) == GlobCandidates(files, mkv_path[1], stem, lang, ext)
           hit(n) == \/ Exists(files, exact(SUBTITLE_EXTENSIONS[n]))
                     \/ candidates(SUBTITLE_EXTENSIONS[n]) # {}
           hits == { n \in DOMAIN SUBTITLE_EXTENSIONS : hit(n) }
       IN  IF hits = {} THEN NoPath
           ELSE LET n == CHOOSE n \in hits : \A m \in hits : n <= m
                    ext == SUBTITLE_EXTENSIONS[n]
                IN  IF Exists(files, exact(ext)) THEN exact(ext)
                    ELSE NatSortFirst(candidates(ext))

\* compute_output_path with root standing in for a missing output_dir.
compute_output_path_RootDefault(mkv_path, root, output_dir) ==
  LET out == IF output_dir = NoPath THEN root ELSE output_dir
      rel == IF IsPrefix(root, mkv_path[1])
             THEN <<SubSeq(mkv_path[1], Len(root) + 1, Len(mkv_path[1])), mkv_path[2]>>
             ELSE <<<<>>, mkv_path[2]>>
  IN  <<out \o rel[1], rel[2]>>

\* compute_output_path: the path it returns (output_dir = NoPath: None) ...
compute_output_path(mkv_path, root, output_dir) ==
  IF output_dir = NoPath THEN mkv_path
  ELSE LET rel == IF IsPrefix(root, mkv_path[1])
                  THEN <<SubSeq(mkv_path[1], Len(root) + 1, Len(mkv_path[1])), mkv_path[2]>>
                  ELSE <<<<>>, mkv_path[2]>>
       IN  <<output_dir \o rel[1], rel[2]>>

\* ... and the directories it leaves existing (target.parent.mkdir).
compute_output_path_dirs(ds, mkv_path, root, output_dir) ==
  IF output_dir = NoPath THEN ds
  ELSE Mkdir(ds, compute_output_path(mkv_path, root, output_dir)[1])

\* The codes pymkv's MKVTrack.language accepts (ISO 639-2); any other raises
\* ValueError, which create_subtitle_track logs, leaving the language unset.
ISO_639_2 ==
  {"rus", "eng", "jpn", "ger", "deu", "fre", "fra", "spa", "ita", "por", "chi", "zho",
   "kor", "ara", "heb", "hin", "tha", "tur", "pol", "dut", "nld", "swe", "nor", "dan",
   "fin", "cze", "ces", "slo", "slk", "hun", "rum", "ron", "bul", "hrv", "srp", "ukr", "und"}

\* create_subtitle_track without `track.language = lang`.
create_subtitle_track_NoLanguage(id, srt_path, lang, is_ai_translated) ==
  Track(id, "subtitles", "und", "S_TEXT/UTF8",
        IF is_ai_translated THEN "AI Translated" ELSE "")

create_subtitle_track(id, srt_path, lang, is_ai_translated) ==
  Track(id, "subtitles",
        IF lang \in ISO_639_2 THEN lang ELSE "und",
        "S_TEXT/UTF8",
        IF is_ai_translated THEN "AI Translated" ELSE "")

\* find_subtitle_track_in_mkv without the language test: the first subtitle
\* track, whatever its language.
find_subtitle_track_in_mkv_AnyLanguage(content, lang) ==
  LET matching == { n \in DOMAIN content.tracks :
                      content.tracks[n].track_type = "subtitles" }
  IN  IF matching = {} THEN NoTrack
      ELSE content.tracks[CHOOSE n \in matching : \A m \in matching : n <= m]

\* find_subtitle_track_in_mkv on a readable container: the first subtitle
\* track, in container order, whose language matches.
find_subtitle_track_in_mkv(content, lang) ==
  LET matching == { n \in DOMAIN content.tracks :
                      /\ content.tracks[n].track_type = "subtitles"
                      /\ is_language_match(lang, content.tracks[n].language) }
  IN  IF matching = {} THEN NoTrack
      ELSE content.tracks[CHOOSE n \in matching : \A m \in matching : n <= m]

\* extract_subtitle_from_mkv: the sidecar's final path.
ExtractFinalPath(track, mkv_path, lang) ==
  LET codec == track.track_codec
      extension == IF codec \in DOMAIN CODEC_TO_EXTENSION
                   THEN CODEC_TO_EXTENSION[codec] ELSE "srt"
  IN  <<mkv_path[1], Stem(mkv_path[2]) \o <<lang, extension>>>>

\* tempfile.NamedTemporaryFile(delete=False, suffix=".mkv"): a fresh name in
\* the system temporary directory, one per call.
TempPath(j) == <<TmpDir, <<"tmp" \o ToString(j), "mkv">>>>

\* ------------------------------------------------------------------ state
VARIABLES
  opts,       \* the command and its options, after the config file is merged
  fs,         \* canonical path -> content, of every existing file
  dirs,       \* the existing directories
  stats,      \* the shared ProcessingStats
  job,        \* per enumerated file: the position and locals of its job
  phase,      \* "start", "running", "summary", "crashed", "usage"
  exit_code,  \* the process's exit status, -1 while it runs
  collected,  \* pool mode: the futures as_completed has yielded
  faults,     \* the external calls that have failed so far
  fs0,        \* fs and dirs when the command started
  dirs0,
  call        \* a function called on its own: its arguments and its result

vars == <<opts, fs, dirs, stats, job, phase, exit_code, collected, faults, fs0, dirs0, call>>

\* No function is called on its own while a command runs.
NoCall == [op |-> "none", args |-> <<>>, done |-> FALSE, ret |-> <<>>]

\* run: --check-lang and --set-lang, lower-cased (cli.py 205-206).
lang_check == "ru"
lang_set == "rus"
\* export: --languages "ru,en", split, stripped and lower-cased (cli.py 392).
language_priority == <<"ru", "en">>

SidecarPath(i) == <<FileDir(i), FileStem(i) \o <<"ru", "srt">>>>

\* The file job j is about.
JobPath(j) == IF opts.cmd = "to-srt" THEN AssPath(j) ELSE MkvPath(j)

Counters == {"total", "processed", "skipped_has_lang", "skipped_no_srt"}

NewJob ==
  [pc |-> "pending", ctr |-> "", reg |-> 0, langs |-> {}, srt |-> NoPath,
   target |-> NoPath, tmp |-> NoPath, lang_idx |-> 1, track |-> NoTrack,
   replace_step |-> FALSE, incs |-> <<>>, err |-> {}]

Terminal(j) == job[j].pc \in {"done", "raised"}

Running(j) == job[j].pc \notin {"pending", "done", "raised"}

\* -------------------------------------------------------------------- Init
RunOptions ==
  [cmd : {"run"}, args_ok : BOOLEAN, dry_run : BOOLEAN, workers : 1..MaxWorkers,
   ignore_mux_errors : BOOLEAN, ai_translated : {FALSE},
   output_dir : {NoPath, OutDir, RootAliasDir}, cleanup : {FALSE}]

ExportOptions ==
  [cmd : {"export"}, args_ok : BOOLEAN, dry_run : BOOLEAN, workers : 1..MaxWorkers,
   ignore_mux_errors : {FALSE}, ai_translated : {FALSE},
   output_dir : {NoPath}, cleanup : {FALSE}]

ConvertOptions ==
  [cmd : {"to-srt"}, args_ok : BOOLEAN, dry_run : BOOLEAN, workers : 1..MaxWorkers,
   ignore_mux_errors : {FALSE}, ai_translated : {FALSE},
   output_dir : {NoPath}, cleanup : BOOLEAN]

\* The tree under root: for run and export every container with its tracks
\* and, where side[i], its "ru" sidecar; for to-srt every .ass file and,
\* where side[i], the .srt beside it.
InitialFs(cmd, tracks, side) ==
  IF cmd = "to-srt"
  THEN [p \in {AssPath(i) : i \in Files} |-> Content("sub", <<>>, 0, TRUE)] @@
       [p \in {with_suffix(AssPath(i), <<"srt">>) : i \in {i \in Files : side[i]}}
          |-> Content("sub", <<>>, 0, TRUE)]
  ELSE [p \in {MkvPath(i) : i \in Files}
          |-> Content("mkv", tracks[CHOOSE i \in Files : MkvPath(i) = p], 0, TRUE)] @@
       [p \in {SidecarPath(i) : i \in {i \in Files : side[i]}}
          |-> Content("sub", <<>>, 0, TRUE)]

InitialDirs == {RootDir, TmpDir} \cup {FileDir(i) : i \in Files}

Init ==
  \E o \in RunOptions \cup ExportOptions \cup ConvertOptions,
     tracks \in [Files -> TrackOptions("export")],
     side \in [Files -> BOOLEAN] :
    /\ \A i \in Files : tracks[i] \in TrackOptions(o.cmd)
    /\ o.cmd = "to-srt" => \A i \in Files : tracks[i] = <<VideoTrack>>
    /\ opts = o
    /\ fs = InitialFs(o.cmd, tracks, side)
    /\ dirs = InitialDirs
    /\ stats = [total |-> 0, processed |-> 0, skipped_has_lang |-> 0, skipped_no_srt |-> 0]
    /\ job = [j \in Files |-> NewJob]
    /\ phase = "start"
    /\ exit_code = -1
    /\ collected = {}
    /\ faults = 0
    /\ fs0 = fs
    /\ dirs0 = dirs
    /\ call = NoCall

\* ------------------------------------------------------------ the commands
\* run / export / convert up to the enumeration: a missing required argument
\* exits with status 2; run creates the output directory (cli.py 202-203).
Start ==
  /\ phase = "start"
  /\ IF ~opts.args_ok
     THEN /\ phase' = "usage"
          /\ exit_code' = 2
          /\ dirs' = dirs
     ELSE /\ phase' = "running"
          /\ exit_code' = exit_code
          /\ dirs' = IF opts.cmd = "run" /\ opts.output_dir # NoPath
                     THEN Mkdir(dirs, opts.output_dir)
                     ELSE dirs
  /\ UNCHANGED <<call, opts, fs, stats, job, collected, faults, fs0, dirs0>>

\* The next file's job starts, the loop's next iteration (workers = 1) or a
\* free pool thread taking the oldest queued work item, and runs up to the
\* read of `stats.total += 1`.
JobStart(j) ==
  /\ phase = "running"
  /\ job[j].pc = "pending"
  /\ \A i \in Files : i < j => job[i].pc # "pending"
  /\ IF opts.workers = 1
     THEN \A i \in Files : i < j => job[i].pc = "done"
     ELSE Cardinality({i \in Files : Running(i)}) < opts.workers
  /\ job' = [job EXCEPT ![j].pc = "inc_write", ![j].ctr = "total", ![j].reg = stats.total]
  /\ UNCHANGED <<call, opts, fs, dirs, stats, phase, exit_code, collected, faults, fs0, dirs0>>

\* The step of each job that follows `stats.total += 1`.
FirstStep ==
  CASE opts.cmd = "run" -> "scan"
    [] opts.cmd = "export" -> "exp_find_srt"
    [] opts.cmd = "to-srt" -> "convert"

\* `stats.<ctr> += 1`, first half: the attribute is read.
IncRead(j) ==
  /\ job[j].pc = "inc_read"
  /\ job' = [job EXCEPT ![j].reg = stats[job[j].ctr], ![j].pc = "inc_write"]
  /\ UNCHANGED <<call, opts, fs, dirs, stats, phase, exit_code, collected, faults, fs0, dirs0>>

\* `stats.<ctr> += 1`, second half: the sum is stored.  After the total the
\* job goes on; after any other counter it returns.
IncWrite(j) ==
  /\ job[j].pc = "inc_write"
  /\ stats' = [stats EXCEPT ![job[j].ctr] = job[j].reg + 1]
  /\ job' = [job EXCEPT ![j].pc = IF job[j].ctr = "total" THEN FirstStep ELSE "done",
                        ![j].reg = 0,
                        ![j].ctr = "",
                        ![j].incs = Append(@, job[j].ctr)]
  /\ UNCHANGED <<call, opts, fs, dirs, phase, exit_code, collected, faults, fs0, dirs0>>

\* ------------------------------------------------------ process_single_mkv
\* probe_subtitle_languages: a failed probe is logged and gives the empty set.
probe_subtitle_languages(files, mkv_path, readable) ==
  IF readable THEN ProbedLanguages(files[Canon(mkv_path)]) ELSE {}

\* process_single_mkv 109-129: the probe and the has_language_in_set test,
\* find_srt_file, compute_output_path and the dry-run branch.
Scan(j) ==
  /\ job[j].pc = "scan"
  /\ \E readable \in BOOLEAN :
       LET langs == probe_subtitle_languages(fs, MkvPath(j), readable)
           failed == IF readable THEN 0 ELSE 1
           has_lang == has_language_in_set(lang_set, langs)
           srt == IF has_lang THEN NoPath ELSE find_srt_file(fs, MkvPath(j), lang_check)
           resolved == ~has_lang /\ srt # NoPath
       IN  /\ faults + failed <= MaxFaults
           /\ faults' = faults + failed
           /\ dirs' = IF resolved
                      THEN compute_output_path_dirs(dirs, MkvPath(j), RootDir, opts.output_dir)
                      ELSE dirs
           /\ job' = [job EXCEPT
                        ![j].langs = langs,
                        ![j].err = IF readable THEN {} ELSE {"probe"},
                        ![j].srt = srt,
                        ![j].target = IF resolved
                                      THEN compute_output_path(MkvPath(j), RootDir, opts.output_dir)
                                      ELSE NoPath,
                        ![j].pc = IF resolved /\ ~opts.dry_run THEN "mux" ELSE "inc_read",
                        ![j].ctr = IF has_lang THEN "skipped_has_lang"
                                   ELSE IF srt = NoPath THEN "skipped_no_srt"
                                   ELSE IF opts.dry_run THEN "processed"
                                   ELSE ""]
  /\ UNCHANGED <<call, opts, fs, stats, phase, exit_code, collected, fs0, dirs0>>

\* What mkv.mux(tmp_path) leaves at tmp_path: mkvmerge writes the container
\* with the added track; when it fails (a non-zero exit, warnings included)
\* it may have written nothing or the file.
MuxOutput(files, mkv_path, tmp, track, written, j) ==
  LET source == files[Canon(mkv_path)]
  IN  CASE written = "none" -> files
        [] written = "whole" ->
             WriteFile(files, tmp, Content("mkv", Append(source.tracks, track), j, TRUE))

\* handle_file_operations: the files it leaves and whether it raised.  moved:
\* whether tmp.replace or its fallback shutil.move got the file into place.
handle_file_operations(files, tmp, output_path, mkv_path, moved) ==
  IF tmp # output_path /\ output_path # mkv_path
  THEN LET unlinked == IF Exists(files, output_path) THEN Remove(files, output_path) ELSE files
       IN  IF moved
           THEN [fs |-> Remove(WriteFile(unlinked, output_path, files[Canon(tmp)]), tmp),
                 raised |-> FALSE]
           ELSE [fs |-> unlinked, raised |-> TRUE]
  ELSE IF tmp # output_path
  THEN IF moved
       THEN [fs |-> Remove(WriteFile(files, mkv_path, files[Canon(tmp)]), tmp),
             raised |-> FALSE]
       ELSE [fs |-> files, raised |-> TRUE]
  ELSE [fs |-> files, raised |-> FALSE]

\* What the calls mux_with_subtitle makes may do: MKVFile, MKVTrack and
\* add_track succeed or raise (opened), mkv.mux raises or not having written
\* nothing or the file, the move into place succeeds or raises (moved).
MuxEnvs ==
  { e \in [opened : BOOLEAN, raises : BOOLEAN, written : {"none", "whole"}, moved : BOOLEAN] :
      ~e.raises => e.written = "whole" }

\* The calls that fail in e, up to the one that ends mux_with_subtitle.
MuxFaults(e, ignore_mux_errors) ==
  IF ~e.opened THEN 1
  ELSE IF e.raises /\ ~ignore_mux_errors THEN 1
  ELSE (IF e.raises THEN 1 ELSE 0) + (IF e.moved THEN 0 ELSE 1)

\* mux_with_subtitle with an except clause that raises whatever the flag says.
mux_with_subtitle_AlwaysRaise(files, mkv_path, srt_path, lang, output_path, is_ai_translated, ignore_mux_errors, e, j) ==
  LET tmp == IF output_path = mkv_path THEN TempPath(j) ELSE output_path
      created == IF output_path = mkv_path
                 THEN WriteFile(files, tmp, Content("empty", <<>>, j, FALSE))
                 ELSE files
      track == create_subtitle_track(Len(files[Canon(mkv_path)].tracks), srt_path, lang,
                                     is_ai_translated)
      muxed == MuxOutput(created, mkv_path, tmp, track, e.written, j)
      replaced == handle_file_operations(muxed, tmp, output_path, mkv_path, e.moved)
  IN  IF ~e.opened
      THEN [fs |-> created, raised |-> TRUE, tmp |-> tmp, replace_step |-> FALSE,
            err |-> {"open"}]
      ELSE IF e.raises
      THEN [fs |-> muxed, raised |-> TRUE, tmp |-> tmp, replace_step |-> FALSE,
            err |-> {"mux"}]
      ELSE [fs |-> replaced.fs, raised |-> replaced.raised, tmp |-> tmp,
            replace_step |-> TRUE,
            err |-> IF replaced.raised THEN {"replace"} ELSE {}]

\* mux_with_subtitle with handle_file_operations inside the try block, so
\* that the flag covers a failed move as well.
mux_with_subtitle_ReplaceInTry(files, mkv_path, srt_path, lang, output_path, is_ai_translated, ignore_mux_errors, e, j) ==
  LET tmp == IF output_path = mkv_path THEN TempPath(j) ELSE output_path
      created == IF output_path = mkv_path
                 THEN WriteFile(files, tmp, Content("empty", <<>>, j, FALSE))
                 ELSE files
      track == create_subtitle_track(Len(files[Canon(mkv_path)].tracks), srt_path, lang,
                                     is_ai_translated)
      muxed == MuxOutput(created, mkv_path, tmp, track, e.written, j)
      replaced == handle_file_operations(muxed, tmp, output_path, mkv_path, e.moved)
  IN  IF ~e.opened
      THEN [fs |-> created, raised |-> TRUE, tmp |-> tmp, replace_step |-> FALSE,
            err |-> {"open"}]
      ELSE IF e.raises /\ ~ignore_mux_errors
      THEN [fs |-> muxed, raised |-> TRUE, tmp |-> tmp, replace_step |-> FALSE,
            err |-> {"mux"}]
      ELSE [fs |-> replaced.fs, raised |-> replaced.raised /\ ~ignore_mux_errors,
            tmp |-> tmp, replace_step |-> TRUE,
            err |-> (IF e.raises THEN {"mux"} ELSE {}) \cup
                    (IF replaced.raised THEN {"replace"} ELSE {})]

\* mux_with_subtitle: the files it leaves, whether it raised, the temporary
\* path it used, whether it reached handle_file_operations, and what failed.
mux_with_subtitle(files, mkv_path, srt_path, lang, output_path, is_ai_translated, ignore_mux_errors, e, j) ==
  LET tmp == IF output_path = mkv_path THEN TempPath(j) ELSE output_path
      created == IF output_path = mkv_path
                 THEN WriteFile(files, tmp, Content("empty", <<>>, j, FALSE))
                 ELSE files
      track == create_subtitle_track(Len(files[Canon(mkv_path)].tracks), srt_path, lang,
                                     is_ai_translated)
      muxed == MuxOutput(created, mkv_path, tmp, track, e.written, j)
      replaced == handle_file_operations(muxed, tmp, output_path, mkv_path, e.moved)
  IN  IF ~e.opened
      THEN [fs |-> created, raised |-> TRUE, tmp |-> tmp, replace_step |-> FALSE,
            err |-> {"open"}]
      ELSE IF e.raises /\ ~ignore_mux_errors
      THEN [fs |-> muxed, raised |-> TRUE, tmp |-> tmp, replace_step |-> FALSE,
            err |-> {"mux"}]
      ELSE [fs |-> replaced.fs, raised |-> replaced.raised, tmp |-> tmp,
            replace_step |-> TRUE,
            err |-> (IF e.raises THEN {"mux"} ELSE {}) \cup
                    (IF replaced.raised THEN {"replace"} ELSE {})]

\* process_single_mkv 131-132: mux_with_subtitle, then `stats.processed += 1`
\* unless it raised.
Mux(j) ==
  /\ job[j].pc = "mux"
  /\ \E e \in MuxEnvs :
       LET r == mux_with_subtitle(fs, MkvPath(j), job[j].srt, lang_set, job[j].target,
                                  opts.ai_translated, opts.ignore_mux_errors, e, j)
       IN  /\ faults + MuxFaults(e, opts.ignore_mux_errors) <= MaxFaults
           /\ faults' = faults + MuxFaults(e, opts.ignore_mux_errors)
           /\ fs' = r.fs
           /\ job' = [job EXCEPT ![j].pc = IF r.raised THEN "raised" ELSE "inc_read",
                                 ![j].ctr = IF r.raised THEN "" ELSE "processed",
                                 ![j].tmp = r.tmp,
                                 ![j].replace_step = r.replace_step,
                                 ![j].err = @ \cup r.err]
  /\ UNCHANGED <<call, opts, dirs, stats, phase, exit_code, collected, fs0, dirs0>>

\* ----------------------------------------------- process_single_mkv_export
\* The language the export job's loop is at.
ExportLang(j) == language_priority[job[j].lang_idx]

\* cli.py 62-67: find_srt_file for the loop's language; an existing sidecar
\* skips the file.
ExportFindSrt(j) ==
  /\ job[j].pc = "exp_find_srt"
  /\ LET existing_srt == find_srt_file(fs, MkvPath(j), ExportLang(j))
     IN  job' = [job EXCEPT ![j].srt = existing_srt,
                            ![j].pc = IF existing_srt # NoPath THEN "inc_read"
                                      ELSE "exp_track",
                            ![j].ctr = IF existing_srt # NoPath THEN "skipped_has_lang"
                                       ELSE ""]
  /\ UNCHANGED <<call, opts, fs, dirs, stats, phase, exit_code, collected, faults, fs0, dirs0>>

\* extract_subtitle_from_mkv: the files it leaves.  outcome: "ok", or
\* "extract_failed" (track.extract raised or created no file), or
\* "copy_failed" (copy2 and the fallback move both failed, after the unlink).
\* Every failure is caught and logged inside the function.
extract_subtitle_from_mkv(files, track, mkv_path, lang, outcome, j) ==
  LET final_path == ExtractFinalPath(track, mkv_path, lang)
      unlinked == IF Exists(files, final_path) THEN Remove(files, final_path) ELSE files
  IN  CASE outcome = "extract_failed" -> files
        [] outcome = "copy_failed" -> unlinked
        [] outcome = "ok" -> WriteFile(unlinked, final_path, Content("sub", <<>>, j, TRUE))

\* cli.py 72-90: find_subtitle_track_in_mkv (a failed probe gives None, and
\* is noted in err with its language); a track found is reported (dry run)
\* or extracted, and counted as processed; none found moves the loop to its
\* next language, or to its end.
ExportTrack(j) ==
  /\ job[j].pc = "exp_track"
  /\ \E readable \in BOOLEAN, outcome \in {"ok", "extract_failed", "copy_failed"} :
       LET subtitle_track ==
             IF readable
             THEN find_subtitle_track_in_mkv(fs[Canon(MkvPath(j))], ExportLang(j))
             ELSE NoTrack
           failed == (IF readable THEN 0 ELSE 1) +
                     (IF subtitle_track = NoTrack \/ opts.dry_run \/ outcome = "ok"
                      THEN 0 ELSE 1)
           probe_err == IF readable THEN {} ELSE {"probe_" \o ExportLang(j)}
       IN  /\ faults + failed <= MaxFaults
           /\ faults' = faults + failed
           /\ IF subtitle_track # NoTrack
              THEN /\ fs' = IF opts.dry_run THEN fs
                            ELSE extract_subtitle_from_mkv(fs, subtitle_track, MkvPath(j),
                                                           ExportLang(j), outcome, j)
                   /\ job' = [job EXCEPT ![j].track = subtitle_track,
                                         ![j].pc = "inc_read",
                                         ![j].ctr = "processed",
                                         ![j].err = IF opts.dry_run \/ outcome = "ok"
                                                    THEN @ ELSE @ \cup {"extract"}]
              ELSE /\ fs' = fs
                   /\ job' = IF job[j].lang_idx < Len(language_priority)
                             THEN [job EXCEPT ![j].lang_idx = @ + 1,
                                              ![j].pc = "exp_find_srt",
                                              ![j].err = @ \cup probe_err]
                             ELSE [job EXCEPT ![j].pc = "inc_read",
                                              ![j].ctr = "skipped_no_srt",
                                              ![j].err = @ \cup probe_err]
  /\ UNCHANGED <<call, opts, dirs, stats, phase, exit_code, collected, fs0, dirs0>>

\* ------------------------------------------------------ convert_ass_to_srt
\* convert_ass_to_srt's try block with the unlink ahead of the conversion.
ConvertOutput_UnlinkFirst(files, ass_file, cleanup, outcome, j) ==
  LET srt_output == with_suffix(ass_file, <<"srt">>)
      unlinked == IF cleanup THEN Remove(files, ass_file) ELSE files
  IN  CASE outcome = "convert_failed" -> unlinked
        [] outcome = "unlink_failed" -> files
        [] outcome = "ok" -> WriteFile(unlinked, srt_output, Content("sub", <<>>, j, TRUE))

\* ass_operations.py 37-54: the files the try block leaves.  outcome: "ok",
\* "convert_failed" (Subtitle, convert or export raised; nothing written) or
\* "unlink_failed" (the .srt is written, ass_file.unlink raised).
ConvertOutput(files, ass_file, cleanup, outcome, j) ==
  LET srt_output == with_suffix(ass_file, <<"srt">>)
      exported == WriteFile(files, srt_output, Content("sub", <<>>, j, TRUE))
  IN  CASE outcome = "convert_failed" -> files
        [] outcome = "unlink_failed" -> exported
        [] outcome = "ok" -> IF cleanup THEN Remove(exported, ass_file) ELSE exported

\* convert_ass_to_srt 22-54: the existing-.srt test, the dry-run branch, the
\* conversion with its except clause.
Convert(j) ==
  /\ job[j].pc = "convert"
  /\ \E outcome \in {"ok", "convert_failed", "unlink_failed"} :
       LET srt_output == with_suffix(AssPath(j), <<"srt">>)
           converts == ~Exists(fs, srt_output) /\ ~opts.dry_run
           failed == IF converts /\ outcome # "ok" THEN 1 ELSE 0
       IN  /\ outcome = "unlink_failed" => opts.cleanup
           /\ faults + failed <= MaxFaults
           /\ faults' = faults + failed
           /\ fs' = IF converts
                    THEN ConvertOutput(fs, AssPath(j), opts.cleanup, outcome, j)
                    ELSE fs
           /\ job' = [job EXCEPT
                        ![j].target = srt_output,
                        ![j].pc = "inc_read",
                        ![j].ctr = IF Exists(fs, srt_output) THEN "skipped_has_lang"
                                   ELSE IF opts.dry_run \/ outcome = "ok" THEN "processed"
                                   ELSE "skipped_no_srt",
                        ![j].err = IF converts /\ outcome # "ok" THEN {"convert"} ELSE {}]
  /\ UNCHANGED <<call, opts, dirs, stats, phase, exit_code, collected, fs0, dirs0>>

\* ------------------------------------------------------- the batch's end
\* Collect that submits a job again when its future holds an exception.
CollectRetry(j) ==
  /\ phase = "running"
  /\ opts.workers > 1
  /\ \A i \in Files : Terminal(i)
  /\ j \notin collected
  /\ \A i \in Files : i < j => i \in collected
  /\ collected' = IF job[j].pc = "raised" THEN collected ELSE collected \cup {j}
  /\ job' = IF job[j].pc = "raised" THEN [job EXCEPT ![j] = NewJob] ELSE job
  /\ UNCHANGED <<call, opts, fs, dirs, stats, phase, exit_code, faults, fs0, dirs0>>

\* Collect without its except clause: the job's exception leaves the loop
\* and the command.
CollectNoCatch(j) ==
  /\ phase = "running"
  /\ opts.workers > 1
  /\ \A i \in Files : Terminal(i)
  /\ j \notin collected
  /\ \A i \in Files : i < j => i \in collected
  /\ collected' = collected \cup {j}
  /\ phase' = IF job[j].pc = "raised" THEN "crashed" ELSE phase
  /\ exit_code' = IF job[j].pc = "raised" THEN 1 ELSE exit_code
  /\ UNCHANGED <<call, opts, fs, dirs, stats, job, faults, fs0, dirs0>>

\* Pool mode: as_completed yields a finished future; future.result() re-raises
\* the job's exception, which the except clause logs.  The loop runs in the
\* main thread beside the workers and only logs, so its steps commute with
\* theirs: they are taken, in one order, once the workers are through.
Collect(j) ==
  /\ phase = "running"
  /\ opts.workers > 1
  /\ \A i \in Files : Terminal(i)
  /\ j \notin collected
  /\ \A i \in Files : i < j => i \in collected
  /\ collected' = collected \cup {j}
  /\ UNCHANGED <<call, opts, fs, dirs, stats, job, phase, exit_code, faults, fs0, dirs0>>

\* Sequential mode: a job's exception leaves the for loop and the command;
\* the process ends with a traceback and status 1.
Crash ==
  /\ phase = "running"
  /\ opts.workers = 1
  /\ \E j \in Files : job[j].pc = "raised"
  /\ phase' = "crashed"
  /\ exit_code' = 1
  /\ UNCHANGED <<call, opts, fs, dirs, stats, job, collected, faults, fs0, dirs0>>

\* print_final_stats / print_export_final_stats, and the command returns.
PrintSummary ==
  /\ phase = "running"
  /\ IF opts.workers = 1
     THEN \A j \in Files : job[j].pc = "done"
     ELSE collected = Files
  /\ phase' = "summary"
  /\ exit_code' = 0
  /\ UNCHANGED <<call, opts, fs, dirs, stats, job, collected, faults, fs0, dirs0>>

Next ==
  \/ Start
  \/ Crash
  \/ PrintSummary
  \/ \E j \in Files :
       \/ JobStart(j)
       \/ IncRead(j)
       \/ IncWrite(j)
       \/ Scan(j)
       \/ Mux(j)
       \/ ExportFindSrt(j)
       \/ ExportTrack(j)
       \/ Convert(j)
       \/ Collect(j)

Spec == Init /\ [][Next]_vars

\* ------------------------------------------- functions called on their own
\* The state around a function that is called outside any command: no
\* command runs, files and ds are the tree the call sees.
Library(files, ds) ==
  /\ opts = [cmd |-> "none", args_ok |-> TRUE, dry_run |-> FALSE, workers |-> 1,
             ignore_mux_errors |-> FALSE, ai_translated |-> FALSE,
             output_dir |-> NoPath, cleanup |-> FALSE]
  /\ fs = files
  /\ dirs = ds
  /\ stats = [total |-> 0, processed |-> 0, skipped_has_lang |-> 0, skipped_no_srt |-> 0]
  /\ job = [j \in Files |-> NewJob]
  /\ phase = "call"
  /\ exit_code = -1
  /\ collected = {}
  /\ faults = 0
  /\ fs0 = files
  /\ dirs0 = ds

NoFiles == [p \in {} |-> Content("", <<>>, 0, TRUE)]

\* Every identifier of the alias table.
TableIds == UNION {LANGUAGE_MAPPING[key] : key \in DOMAIN LANGUAGE_MAPPING}

\* The strings is_language_match is called with: the table's identifiers,
\* spellings in upper case, strings outside the table, the empty string.
MatchStrings == TableIds \cup {"RU", "Rus", "RUS", "EN", "Eng", "ENG", "xx", "yy", ""}

MatchInit ==
  /\ \E requested_lang, track_lang \in MatchStrings :
       call = [op |-> "is_language_match", args |-> <<requested_lang, track_lang>>,
               done |-> FALSE, ret |-> FALSE]
  /\ Library(NoFiles, {})

MatchCall ==
  /\ call.op = "is_language_match"
  /\ ~call.done
  /\ call' = [call EXCEPT !.done = TRUE,
                          !.ret = is_language_match(call.args[1], call.args[2])]
  /\ UNCHANGED <<opts, fs, dirs, stats, job, phase, exit_code, collected, faults, fs0, dirs0>>

MatchSpec == MatchInit /\ [][MatchCall]_vars

\* find_srt_file called for root/s1/m.mkv on a tree that holds the container
\* and any of these files beside it.
SidecarNames ==
  { <<"m", "ru", "srt">>, <<"m", "ru", "ass">>,
    <<"m", "part1", "ru", "srt">>, <<"m", "part2", "ru", "srt">>,
    <<"m", "part10", "ru", "srt">>, <<"m", "alt", "ru", "srt">>,
    <<"m", "part2", "ru", "ass">>, <<"m", "part10", "ru", "ass">>,
    <<"m", "part1", "en", "srt">> }

TreeWith(names) ==
  [p \in {MkvPath(2)} |-> Content("mkv", <<VideoTrack>>, 0, TRUE)] @@
  [p \in {<<FileDir(1), name>> : name \in names} |-> Content("sub", <<>>, 0, TRUE)]

LocateInit ==
  \E names \in SUBSET SidecarNames, check_lang \in {"ru", "RU", ""} :
    /\ call = [op |-> "find_srt_file", args |-> <<MkvPath(2), check_lang>>,
               done |-> FALSE, ret |-> NoPath]
    /\ Library(TreeWith(names), InitialDirs)

LocateCall ==
  /\ call.op = "find_srt_file"
  /\ ~call.done
  /\ call' = [call EXCEPT !.done = TRUE,
                          !.ret = find_srt_file(fs, call.args[1], call.args[2])]
  /\ UNCHANGED <<opts, fs, dirs, stats, job, phase, exit_code, collected, faults, fs0, dirs0>>

LocateSpec == LocateInit /\ [][LocateCall]_vars

\* compute_output_path called with containers under root, under another
\* spelling of root and outside it.
ElsewhereDir == <<"elsewhere">>

ResolvePaths ==
  {MkvPath(i) : i \in Files} \cup {AssPath(i) : i \in Files} \cup
  { <<RootDir, <<"m", "mkv">>>>,
    <<RootAliasDir \o <<"s1">>, <<"m", "mkv">>>>,
    <<ElsewhereDir \o <<"x">>, <<"m", "mkv">>>> }

ResolveInit ==
  \E mkv_path \in ResolvePaths, root \in {RootDir, RootAliasDir, ElsewhereDir},
     output_dir \in {NoPath, OutDir, RootAliasDir} :
    /\ call = [op |-> "compute_output_path", args |-> <<mkv_path, root, output_dir>>,
               done |-> FALSE, ret |-> NoPath]
    /\ Library(NoFiles, InitialDirs)

ResolveCall ==
  /\ call.op = "compute_output_path"
  /\ ~call.done
  /\ call' = [call EXCEPT
                !.done = TRUE,
                !.ret = compute_output_path(call.args[1], call.args[2], call.args[3])]
  /\ dirs' = compute_output_path_dirs(dirs, call.args[1], call.args[2], call.args[3])
  /\ UNCHANGED <<opts, fs, stats, job, phase, exit_code, collected, faults, fs0, dirs0>>

ResolveSpec == ResolveInit /\ [][ResolveCall]_vars

\* ---------------------------------------------------------------- config.py
\* A [mkv_submerge] section of a config file and a command line.  "" is a
\* string option that is not given (None), 0 a worker count that is not
\* given.
ConfigSections ==
  [root : {"", "cfgroot"}, check_lang : {"", "ru"}, set_lang : {"", "rus"},
   output_dir : {"", "out"}, ai_translated : BOOLEAN, ignore_mux_errors : BOOLEAN,
   verbose : BOOLEAN, workers : {0, 4, 9}, languages : {"", "ru,en"}]

CommandLines ==
  [cmd : {"run", "export"}, root : {"", "root"}, check_lang : {""}, set_lang : {""},
   output_dir : {""}, ai_translated : {FALSE}, ignore_mux_errors : BOOLEAN,
   verbose : {FALSE}, workers : {1, 2}, languages : {"", "en"}]

\* read_config on an existing file: the keys it returns.
read_config(section) ==
  [key \in {"root", "check_lang", "set_lang", "output_dir", "ai_translated",
            "ignore_mux_errors", "verbose"} |-> section[key]]

\* dict.get(key, default)
Get(cfg, key, default) == IF key \in DOMAIN cfg THEN cfg[key] ELSE default

\* cfg.get("workers", 1), kept if it is an int in 1..8.
config_workers(cfg) ==
  LET workers_val == Get(cfg, "workers", 1)
  IN  IF 1 <= workers_val /\ workers_val <= 8 THEN workers_val ELSE 1

\* run, lines 155-185: the options after the config file is merged in.
run_options(cl, cfg) ==
  [cmd |-> "run",
   verbose |-> IF ~cl.verbose THEN Get(cfg, "verbose", FALSE) ELSE cl.verbose,
   root |-> IF cl.root = "" /\ Get(cfg, "root", "") # "" THEN cfg["root"] ELSE cl.root,
   check_lang |-> IF cl.check_lang = "" THEN Get(cfg, "check_lang", "") ELSE cl.check_lang,
   set_lang |-> IF cl.set_lang = "" THEN Get(cfg, "set_lang", "") ELSE cl.set_lang,
   output_dir |-> IF cl.output_dir = "" /\ Get(cfg, "output_dir", "") # ""
                  THEN cfg["output_dir"] ELSE cl.output_dir,
   ai_translated |-> IF ~cl.ai_translated THEN Get(cfg, "ai_translated", FALSE)
                     ELSE cl.ai_translated,
   ignore_mux_errors |-> IF ~cl.ignore_mux_errors THEN Get(cfg, "ignore_mux_errors", FALSE)
                         ELSE cl.ignore_mux_errors,
   workers |-> IF cl.workers = 1 THEN config_workers(cfg) ELSE cl.workers,
   languages |-> ""]

\* export, lines 360-381.
export_options(cl, cfg) ==
  [cmd |-> "export",
   verbose |-> IF ~cl.verbose THEN Get(cfg, "verbose", FALSE) ELSE cl.verbose,
   root |-> IF cl.root = "" /\ Get(cfg, "root", "") # "" THEN cfg["root"] ELSE cl.root,
   check_lang |-> "",
   set_lang |-> "",
   output_dir |-> "",
   ai_translated |-> FALSE,
   ignore_mux_errors |-> FALSE,
   workers |-> IF cl.workers = 1 THEN config_workers(cfg) ELSE cl.workers,
   languages |-> IF cl.languages = "" /\ Get(cfg, "languages", "") # ""
                 THEN cfg["languages"] ELSE cl.languages]

ConfigInit ==
  \E cl \in CommandLines, section \in ConfigSections :
    /\ call = [op |-> "read_config", args |-> <<cl, section>>, done |-> FALSE, ret |-> cl]
    /\ Library(NoFiles, {})

\* The command reads the config file and merges it into its options.
ConfigCall ==
  /\ call.op = "read_config"
  /\ ~call.done
  /\ call' = [call EXCEPT
                !.done = TRUE,
                !.ret = IF call.args[1].cmd = "run"
                        THEN run_options(call.args[1], read_config(call.args[2]))
                        ELSE export_options(call.args[1], read_config(call.args[2]))]
  /\ UNCHANGED <<opts, fs, dirs, stats, job, phase, exit_code, collected, faults, fs0, dirs0>>

ConfigSpec == ConfigInit /\ [][ConfigCall]_vars

\* ----------------------------------------------------------------- claims
Range(seq) == {seq[n] : n \in DOMAIN seq}

\* The jobs that incremented counter c.
Counted(c) == {j \in Files : c \in Range(job[j].incs)}

\* A job that ended in error: it raised, or its extraction failed.
JobError(j) == job[j].pc = "raised" \/ "extract" \in job[j].err

\* C1: a pool run in which no job raised ends with the counters of the
\* sequential run of the same jobs: every counter is the number of jobs that
\* incremented it.
C1_PoolCountersEqualSequential ==
  (phase = "summary" /\ opts.workers > 1 /\ \A j \in Files : job[j].pc = "done")
    => \A c \in Counters : stats[c] = Cardinality(Counted(c))

\* C2: after a mux or extract failure in some job the command still ends
\* with every file's job run and the summary printed, in both modes.
C2_FailureDoesNotAbortBatch ==
  (exit_code # -1 /\ \E j \in Files : job[j].err \cap {"open", "mux", "replace", "extract"} # {})
    => (phase = "summary" /\ \A j \in Files : Terminal(j))

\* C3: in every state of a dry run the files, their contents and the
\* directories are those at the start.
C3_DryRunChangesNothing ==
  opts.dry_run => (fs = fs0 /\ dirs = dirs0)

\* C4: once mux_with_subtitle, run in place, has returned or raised, the
\* source path holds a file and the temporary file is gone.
C4_InPlaceLeavesNoTemporary ==
  \A j \in Files :
    (opts.cmd = "run" /\ job[j].tmp # NoPath /\ job[j].target = MkvPath(j))
      => (Exists(fs, MkvPath(j)) /\ ~Exists(fs, job[j].tmp))

\* C5: a failed mutate call without ignoreErrors is propagated, no replace
\* step is made and the container at the source path is as it was.
C5_FailedMuxLeavesOriginal ==
  \A j \in Files :
    ("mux" \in job[j].err /\ ~opts.ignore_mux_errors)
      => /\ job[j].pc = "raised"
         /\ ~job[j].replace_step
         /\ Exists(fs, MkvPath(j))
         /\ fs[Canon(MkvPath(j))] = fs0[Canon(MkvPath(j))]

\* C6: when the batch has finished, total is the number of enumerated files,
\* no file incremented two outcome counters, and the outcome counters add up
\* to the files whose job did not end in error.
C6_OneOutcomePerFile ==
  phase = "summary"
    => /\ stats.total = NumFiles
       /\ \A j \in Files :
            Cardinality({n \in DOMAIN job[j].incs : job[j].incs[n] # "total"}) <= 1
       /\ stats.processed + stats.skipped_has_lang + stats.skipped_no_srt
            = Cardinality({j \in Files : ~JobError(j)})

\* C7: in pool mode a job's exception never ends the command: while the
\* command runs with a raised job it can still take a step, and the summary
\* comes after every job has reached a terminal state and its future was
\* collected.
C7_PoolIsolatesJobFailure ==
  opts.workers > 1
    => /\ phase # "crashed"
       /\ (phase = "running" /\ \E j \in Files : job[j].pc = "raised") => ENABLED Next
       /\ phase = "summary" => \A j \in Files : Terminal(j) /\ j \in collected

\* C7's case: a pool run has printed its summary, one job raised, and a job
\* started after it ran to its end and was counted.
C7_Witness ==
  /\ opts.workers > 1
  /\ phase = "summary"
  /\ exit_code = 0
  /\ \E i, j \in Files :
       /\ i < j
       /\ job[i].pc = "raised"
       /\ job[j].pc = "done"
       /\ "processed" \in Range(job[j].incs)

\* C8: the sidecar a job locates is the one it locates on the tree as it was
\* before any job ran, so no job's outcome rests on another's.
C8_JobsIndependent ==
  \A j \in Files :
    job[j].srt # NoPath
      => job[j].srt = find_srt_file(fs0, MkvPath(j),
                                    IF opts.cmd = "export" THEN ExportLang(j) ELSE lang_check)

\* C9: an export job whose extraction or copy failed does not raise and is
\* not counted in processed.
C9_FailedExtractNotProcessed ==
  \A j \in Files :
    "extract" \in job[j].err
      => (job[j].pc # "raised" /\ "processed" \notin Range(job[j].incs))

\* C10: the command exits with status 2, before any job, exactly when a
\* required argument is missing; every other run ends with the summary and
\* status 0.
C10_ExitStatus ==
  /\ exit_code = 2 <=> (phase = "usage" /\ ~opts.args_ok)
  /\ phase = "usage" => \A j \in Files : job[j].pc = "pending"
  /\ (exit_code # -1 /\ opts.args_ok) => (phase = "summary" /\ exit_code = 0)

\* Two identifiers belong to one alias set of the table.
SameAliasSet(a, b) ==
  \E key \in DOMAIN LANGUAGE_MAPPING :
    a \in LANGUAGE_MAPPING[key] /\ b \in LANGUAGE_MAPPING[key]

\* C11: for identifiers a, b of the alias table, is_language_match(a, b) is
\* true when they belong to the same alias set and false when they belong to
\* different ones; the calls cover both orders of every pair.
C11_TableMatchIsSameAliasSet ==
  (call.op = "is_language_match" /\ call.done
     /\ call.args[1] \in TableIds /\ call.args[2] \in TableIds)
    => (call.ret <=> SameAliasSet(call.args[1], call.args[2]))

\* C11's case: two different identifiers of one alias set, neither of them
\* its primary key, were matched.
C11_Witness ==
  /\ call.op = "is_language_match"
  /\ call.done
  /\ call.ret
  /\ call.args[1] # call.args[2]
  /\ call.args[1] \notin DOMAIN LANGUAGE_MAPPING
  /\ call.args[2] \notin DOMAIN LANGUAGE_MAPPING
  /\ SameAliasSet(call.args[1], call.args[2])

\* The files beside root/s1/m.mkv with the exact-suffix name for "ru", and
\* those the wildcard pattern m.*.ru.<ext> matches.
ExactSidecars == {p \in DOMAIN fs : p[1] = FileDir(1) /\ Len(p[2]) = 3
                                   /\ p[2][1] = "m" /\ p[2][2] = "ru"}

WildcardSidecars == {p \in DOMAIN fs : p[1] = FileDir(1) /\ Len(p[2]) = 4
                                      /\ p[2][1] = "m" /\ p[2][3] = "ru"}

\* C12: find_srt_file called with a language returns an exact-suffix
\* sidecar whenever one exists with any subtitle extension, and returns none
\* only if there is neither an exact-suffix nor a wildcard file.
C12_ExactSuffixFirst ==
  (call.op = "find_srt_file" /\ call.done /\ call.args[2] # "")
    => /\ ExactSidecars # {} => call.ret \in ExactSidecars
       /\ call.ret = NoPath => (ExactSidecars = {} /\ WildcardSidecars = {})

\* The number in a sidecar name's middle part.
PartNumber(part) ==
  CASE part = "part1" -> 1 [] part = "part2" -> 2 [] part = "part10" -> 10 [] OTHER -> 0

\* C13: when find_srt_file returns a wildcard match whose middle part is
\* numbered, no candidate of the same extension has a smaller number: part1
\* before part2, part2 before part10.
C13_NaturalSortFirst ==
  (call.op = "find_srt_file" /\ call.done /\ call.ret \in WildcardSidecars
     /\ PartNumber(call.ret[2][2]) > 0)
    => \A q \in WildcardSidecars :
         (q[2][4] = call.ret[2][4] /\ PartNumber(q[2][2]) > 0)
           => PartNumber(call.ret[2][2]) <= PartNumber(q[2][2])

\* C13's case: part2 was chosen among candidates that include part10.
C13_Witness ==
  /\ call.op = "find_srt_file"
  /\ call.done
  /\ call.ret = <<FileDir(1), <<"m", "part2", "ru", "srt">>>>
  /\ <<FileDir(1), <<"m", "part10", "ru", "srt">>>> \in DOMAIN fs

\* C14: compute_output_path(path, root, None) returns path, whatever path
\* and root are, and leaves the directories and the files as they were.
C14_NoOutputDirIsIdentity ==
  (call.op = "compute_output_path" /\ call.done /\ call.args[3] = NoPath)
    => (call.ret = call.args[1] /\ dirs = dirs0 /\ fs = fs0)

\* C14's case: the call returned for a container that is not under root,
\* without an output directory.
C14_Witness ==
  /\ call.op = "compute_output_path"
  /\ call.done
  /\ call.args[3] = NoPath
  /\ ~IsPrefix(call.args[2], call.args[1][1])
  /\ call.ret = call.args[1]

\* Job j of run is past the has_language_in_set test.
Scanned(j) ==
  /\ opts.cmd = "run"
  /\ job[j].pc \notin {"pending", "scan"}
  /\ ~(job[j].pc = "inc_write" /\ job[j].ctr = "total")

\* Job j took the already-satisfied branch.
SkippedHasLang(j) ==
  job[j].ctr = "skipped_has_lang" \/ "skipped_has_lang" \in Range(job[j].incs)

\* The container of job j holds a subtitle track whose language matches
\* set-lang.
HasMatchingTrack(j) ==
  \E n \in DOMAIN fs0[MkvPath(j)].tracks :
    /\ fs0[MkvPath(j)].tracks[n].track_type = "subtitles"
    /\ is_language_match(lang_set, fs0[MkvPath(j)].tracks[n].language)

\* C15 as stated: a run job is skipped as already satisfied exactly when its
\* container holds a subtitle track matching set-lang, and a job that ended
\* so incremented total and skipped_has_lang once each and nothing else.
C15_SkippedIffTrackMatches ==
  \A j \in Files :
    Scanned(j)
      => /\ SkippedHasLang(j) <=> HasMatchingTrack(j)
         /\ (SkippedHasLang(j) /\ job[j].pc = "done")
              => job[j].incs = <<"total", "skipped_has_lang">>

\* C15 amended: a run job is skipped as already satisfied exactly when the
\* probe of its container succeeds and the container holds a subtitle track
\* matching set-lang; such a job increments total and skipped_has_lang once
\* each and nothing else, and none of its steps changes a file or a
\* directory.
C15_SkippedIffProbedTrackMatches ==
  /\ [](\A j \in Files :
          Scanned(j)
            => /\ SkippedHasLang(j) <=> (HasMatchingTrack(j) /\ "probe" \notin job[j].err)
               /\ (SkippedHasLang(j) /\ job[j].pc = "done")
                    => job[j].incs = <<"total", "skipped_has_lang">>)
  /\ [][\A j \in Files :
          (opts.cmd = "run" /\ job'[j] # job[j] /\ SkippedHasLang(j)')
            => (fs' = fs /\ dirs' = dirs)]_vars

\* C15's case: a run job whose container has a "ru" track and a sidecar
\* beside it has ended as skipped, request "rus".
C15_Witness ==
  \E j \in Files :
    /\ opts.cmd = "run"
    /\ ~opts.dry_run
    /\ job[j].pc = "done"
    /\ SkippedHasLang(j)
    /\ HasMatchingTrack(j)
    /\ find_srt_file(fs0, MkvPath(j), lang_check) # NoPath
    /\ fs[MkvPath(j)] = fs0[MkvPath(j)]

\* find_srt_file finds a sidecar for check-lang beside the container of
\* job j.
HasSidecar(j) == find_srt_file(fs0, MkvPath(j), lang_check) # NoPath

\* The destination of job j holds its container with one more track, a
\* subtitle track of language set-lang.
Muxed(j) ==
  LET target == Canon(compute_output_path(MkvPath(j), RootDir, opts.output_dir))
      source == fs0[MkvPath(j)]
  IN  /\ target \in DOMAIN fs
      /\ fs[target].kind = "mkv"
      /\ fs[target].tracks =
           Append(source.tracks,
                  Track(Len(source.tracks), "subtitles", lang_set, "S_TEXT/UTF8", ""))

\* mux_with_subtitle has run for job j and none of its calls failed.
MuxSucceeded(j) ==
  job[j].tmp # NoPath /\ job[j].err \cap {"open", "mux", "replace"} = {}

\* C16 as stated: a run job whose container has no track matching set-lang
\* and has a sidecar for check-lang ends with the container muxed with a
\* set-lang track and with processed incremented once, no skip counter.
C16_SidecarIsMuxed ==
  \A j \in Files :
    (opts.cmd = "run" /\ Terminal(j) /\ ~HasMatchingTrack(j) /\ HasSidecar(j))
      => (Muxed(j) /\ job[j].incs = <<"total", "processed">>)

\* C16 amended: such a job never takes a skip branch; outside a dry run,
\* once mux_with_subtitle has run without a failing call the destination
\* holds the container muxed with the sidecar as a set-lang track; in a dry
\* run the container stays as it was; and a job that returned incremented
\* total and processed once each and nothing else.
C16_SidecarIsMuxedUnlessDryOrFailed ==
  \A j \in Files :
    (Scanned(j) /\ ~HasMatchingTrack(j) /\ HasSidecar(j))
      => /\ job[j].srt = find_srt_file(fs0, MkvPath(j), lang_check)
         /\ job[j].ctr \in {"", "processed"}
         /\ (~opts.dry_run /\ MuxSucceeded(j)) => Muxed(j)
         /\ opts.dry_run => fs[MkvPath(j)] = fs0[MkvPath(j)]
         /\ job[j].pc = "done" => job[j].incs = <<"total", "processed">>

\* C16's case: outside a dry run, a job whose container had an "en" track
\* only and a sidecar has returned, its container muxed in place.
C16_Witness ==
  \E j \in Files :
    /\ opts.cmd = "run"
    /\ ~opts.dry_run
    /\ opts.output_dir = NoPath
    /\ job[j].pc = "done"
    /\ Len(fs0[MkvPath(j)].tracks) = 2
    /\ ~HasMatchingTrack(j)
    /\ HasSidecar(j)
    /\ MuxSucceeded(j)
    /\ Muxed(j)

\* The shared options of a command.
SharedOptions(cmd) ==
  IF cmd = "run"
  THEN {"root", "check_lang", "set_lang", "output_dir", "workers", "verbose",
        "ignore_mux_errors", "ai_translated"}
  ELSE {"root", "languages", "workers", "verbose"}

\* Option key of the command line is at its default.
AtDefault(cl, key) ==
  CASE key = "workers" -> cl[key] = 1
    [] key \in {"verbose", "ignore_mux_errors", "ai_translated"} -> ~cl[key]
    [] OTHER -> cl[key] = ""

\* The config section gives option key a value (a worker count in 1..8).
Given(section, key) ==
  CASE key = "workers" -> section[key] \in 1..8
    [] key \in {"verbose", "ignore_mux_errors", "ai_translated"} -> section[key]
    [] OTHER -> section[key] # ""

\* C17: every shared option that the command line leaves at its default and
\* the config file gives takes the config file's value, the worker count and
\* the export language list included.
C17_ConfigOverridesDefaults ==
  (call.op = "read_config" /\ call.done)
    => \A key \in SharedOptions(call.args[1].cmd) :
         (AtDefault(call.args[1], key) /\ Given(call.args[2], key))
           => call.ret[key] = call.args[2][key]

\* C18: in place (destination = source), the temporary file that
\* mux_with_subtitle writes to lies in the directory of the source container.
C18_TemporaryBesideSource ==
  \A j \in Files :
    (opts.cmd = "run" /\ job[j].tmp # NoPath /\ job[j].target = MkvPath(j))
      => CanonDir(job[j].tmp[1]) = CanonDir(MkvPath(j)[1])

\* C19: a file's job is started once: a job that has left the queue never
\* returns to it, a job that returned or raised is never run again, and no
\* job increments total twice.
C19_StartedOnceNeverRetried ==
  /\ [](\A j \in Files :
          Cardinality({n \in DOMAIN job[j].incs : job[j].incs[n] = "total"}) <= 1)
  /\ [][\A j \in Files :
          /\ job[j].pc # "pending" => job'[j].pc # "pending"
          /\ Terminal(j) => job'[j] = job[j]]_vars

\* C19's case: in pool mode a job raised, its future was collected and the
\* command went on to its summary with the job still as it failed.
C19_Witness ==
  \E j \in Files :
    /\ opts.workers > 1
    /\ job[j].pc = "raised"
    /\ job[j].incs = <<"total">>
    /\ j \in collected
    /\ phase = "summary"

\* After lower-casing, a and b are textually equal or belong to one alias set.
EqualOrSameAliasSet(a, b) ==
  Lower(a) = Lower(b) \/ SameAliasSet(Lower(a), Lower(b))

\* C20 as stated: for every pair of strings, the empty string included,
\* is_language_match is true exactly when the two are equal after
\* lower-casing or belong to one alias set.
C20_MatchIffEqualOrSameAliasSet ==
  (call.op = "is_language_match" /\ call.done)
    => (call.ret <=> EqualOrSameAliasSet(call.args[1], call.args[2]))

\* C20 amended: is_language_match is false for an empty candidate, and for
\* every other pair of strings it is true exactly when the two are equal
\* after lower-casing or belong to one alias set.
C20_MatchIffNonEmptyEqualOrSameAliasSet ==
  (call.op = "is_language_match" /\ call.done)
    => (call.ret <=> (call.args[2] # ""
                        /\ EqualOrSameAliasSet(call.args[1], call.args[2])))

\* C20's case: a request in upper case matched a candidate of its alias set
\* that differs from it after lower-casing.
C20_Witness ==
  /\ call.op = "is_language_match"
  /\ call.done
  /\ call.ret
  /\ Lower(call.args[1]) # call.args[1]
  /\ Lower(call.args[1]) # Lower(call.args[2])

\* The mux of job j raised inside perform_mux_operation and the run has
\* --ignore-mux-errors set.
IgnoredMuxError(j) ==
  opts.cmd = "run" /\ opts.ignore_mux_errors /\ "mux" \in job[j].err

\* Job j muxes in place: its destination is its container's own path.
InPlace(j) == job[j].target = MkvPath(j)

\* The container of job j is what job j's temporary file held, and the
\* temporary file is gone.
ReplacedByTemporary(j) ==
  /\ fs[MkvPath(j)].by = j
  /\ ~Exists(fs, job[j].tmp)

\* C21 as stated: a job whose mux failed with ignore-mux-errors set went on
\* to the replace step, did not raise, in place has its container replaced
\* by the temporary file, and counts processed.
C21_IgnoredMuxErrorIsProcessed ==
  \A j \in Files :
    IgnoredMuxError(j)
      => /\ job[j].replace_step
         /\ job[j].pc # "raised"
         /\ InPlace(j) => ReplacedByTemporary(j)
         /\ job[j].pc = "done" => job[j].incs = <<"total", "processed">>

\* C21 amended: such a job always went on to the replace step; if the
\* replace step did not fail, the job did not raise, in place its container
\* is what the temporary file held, and it counts processed.
C21_IgnoredMuxErrorIsProcessedIfReplaced ==
  \A j \in Files :
    IgnoredMuxError(j)
      => /\ job[j].replace_step
         /\ "replace" \notin job[j].err
              => /\ job[j].pc # "raised"
                 /\ InPlace(j) => ReplacedByTemporary(j)
                 /\ job[j].pc = "done" => job[j].incs = <<"total", "processed">>

\* C21's case: a job muxing in place whose mux failed having written nothing
\* has returned, its container replaced by the empty temporary file.
C21_Witness ==
  \E j \in Files :
    /\ IgnoredMuxError(j)
    /\ InPlace(j)
    /\ job[j].pc = "done"
    /\ "replace" \notin job[j].err
    /\ fs[MkvPath(j)].kind = "empty"
    /\ ReplacedByTemporary(j)
    /\ job[j].incs = <<"total", "processed">>

\* C22: a job whose move of the temporary file into place failed has raised
\* out of mux_with_subtitle, with ignore-mux-errors set as without it, and
\* neither has incremented processed nor is about to.
C22_FailedReplaceRaises ==
  \A j \in Files :
    (opts.cmd = "run" /\ "replace" \in job[j].err)
      => /\ job[j].replace_step
         /\ job[j].pc = "raised"
         /\ job[j].ctr # "processed"
         /\ "processed" \notin Range(job[j].incs)

\* C22's case: with ignore-mux-errors set, the mux succeeded and the move of
\* the temporary file onto the container failed; the job raised.
C22_Witness ==
  \E j \in Files :
    /\ opts.cmd = "run"
    /\ opts.ignore_mux_errors
    /\ job[j].err = {"replace"}
    /\ Exists(fs, job[j].tmp)
    /\ job[j].pc = "raised"
    /\ job[j].incs = <<"total">>

\* The counter the job of container or .ass file j increments after total in
\* a dry run, every call succeeding: the branch process_single_mkv,
\* process_single_mkv_export or convert_ass_to_srt takes on the tree files.
RECURSIVE DryExportOutcome(_, _, _)
DryExportOutcome(files, mkv_path, n) ==
  IF n > Len(language_priority) THEN "skipped_no_srt"
  ELSE IF find_srt_file(files, mkv_path, language_priority[n]) # NoPath
  THEN "skipped_has_lang"
  ELSE IF find_subtitle_track_in_mkv(files[Canon(mkv_path)], language_priority[n]) # NoTrack
  THEN "processed"
  ELSE DryExportOutcome(files, mkv_path, n + 1)

DryRunOutcome(files, j) ==
  CASE opts.cmd = "run" ->
         IF has_language_in_set(lang_set, ProbedLanguages(files[Canon(MkvPath(j))]))
         THEN "skipped_has_lang"
         ELSE IF find_srt_file(files, MkvPath(j), lang_check) = NoPath
         THEN "skipped_no_srt"
         ELSE "processed"
    [] opts.cmd = "export" -> DryExportOutcome(files, MkvPath(j), 1)
    [] opts.cmd = "to-srt" ->
         IF Exists(files, with_suffix(AssPath(j), <<"srt">>)) THEN "skipped_has_lang"
         ELSE "processed"

\* The counters a dry run over the tree files ends with.
DryRunStats(files) ==
  [c \in Counters |->
     Cardinality({j \in Files : c = "total" \/ DryRunOutcome(files, j) = c})]

\* A sequential command has printed its summary and no call of it failed.
SequentialRunEnded ==
  phase = "summary" /\ opts.workers = 1 /\ faults = 0

\* A dry run ends with the counters DryRunStats gives for its initial tree.
DryRunEndsWithDryRunStats ==
  (SequentialRunEnded /\ opts.dry_run) => stats = DryRunStats(fs0)

\* C23: a sequential run in which every call succeeded ends, dry or not, with
\* the counters of the dry run over the same initial tree.
C23_DryRunCountsAsRealRun ==
  SequentialRunEnded => stats = DryRunStats(fs0)

\* The container of export job j has a subtitle track whose language matches
\* the n-th language of the priority list.
HasTrackOf(j, n) ==
  \E t \in Range(fs[Canon(MkvPath(j))].tracks) :
    t.track_type = "subtitles" /\ is_language_match(language_priority[n], t.language)

\* The same, as the job saw it: the probe for that language did not fail.
ProbedTrackOf(j, n) ==
  HasTrackOf(j, n) /\ ("probe_" \o language_priority[n]) \notin job[j].err

\* A sidecar of the n-th language exists for the container of job j.
HasSidecarOf(j, n) == find_srt_file(fs, MkvPath(j), language_priority[n]) # NoPath

\* Export job j has left its language loop: the counter it increments.
Decided(j) ==
  opts.cmd = "export" /\ (job[j].pc = "done" \/ job[j].ctr \in Counters \ {"total"})

Decision(j) == IF job[j].pc = "done" THEN job[j].incs[2] ELSE job[j].ctr

\* What C24 says of a decided export job, has(j, n) telling whether the
\* container has an embedded track of the n-th language: a job that
\* extracted took the track of the earliest language that has one; a job
\* that skipped on a sidecar found one of a language no later than the
\* earliest that has a track, and extracted nothing; a container with
\* neither a sidecar nor a track of any listed language is counted in
\* skipped_no_srt.
PriorityOrder(j, has(_, _)) ==
  LET decided_at == job[j].lang_idx
      languages == DOMAIN language_priority
  IN  /\ Decision(j) = "processed"
           => /\ has(j, decided_at)
              /\ \A n \in languages : n < decided_at => ~has(j, n)
              /\ job[j].track \in Range(fs[Canon(MkvPath(j))].tracks)
              /\ is_language_match(language_priority[decided_at], job[j].track.language)
      /\ Decision(j) = "skipped_has_lang"
           => /\ job[j].srt # NoPath
              /\ Exists(fs, job[j].srt)
              /\ job[j].srt[2][Len(job[j].srt[2]) - 1] = language_priority[decided_at]
              /\ \A n \in languages : n < decided_at => ~has(j, n)
              /\ job[j].track = NoTrack
              /\ \A p \in DOMAIN fs : fs[p].by # j
      /\ (\A n \in languages : ~HasSidecarOf(j, n) /\ ~HasTrackOf(j, n))
           => Decision(j) = "skipped_no_srt"

\* C24 as stated: every decided export job follows the priority order over
\* the tracks its container has.
C24_ExportPriorityOrder ==
  \A j \in Files : Decided(j) => PriorityOrder(j, HasTrackOf)

\* C24 amended: every decided export job follows the priority order over
\* the tracks its probes found, a language whose probe failed counting as
\* having no track.
C24_ExportPriorityOrderAsProbed ==
  \A j \in Files : Decided(j) => PriorityOrder(j, ProbedTrackOf)

\* C24's case: a container with a "ru" and an "en" track and no sidecar had
\* its "ru" track extracted; another, with an "en" track only, was decided
\* at the second language.
C24_Witness ==
  \E j \in Files :
    /\ Decided(j)
    /\ ~opts.dry_run
    /\ job[j].pc = "done"
    /\ job[j].err = {}
    /\ \/ /\ HasTrackOf(j, 1) /\ HasTrackOf(j, 2)
          /\ job[j].lang_idx = 1
          /\ job[j].track.language = "ru"
          /\ Exists(fs, ExtractFinalPath(job[j].track, MkvPath(j), "ru"))
       \/ /\ ~HasTrackOf(j, 1) /\ HasTrackOf(j, 2)
          /\ job[j].lang_idx = 2
          /\ job[j].track.language = "en"

\* C25: a run job that called mux_with_subtitle with a destination that is
\* the file of its source container had mkvmerge write to another file, the
\* temporary one; with a destination that is another file, its source
\* container is as it was at the start.
C25_NeverWritesOntoSource ==
  \A j \in Files :
    (opts.cmd = "run" /\ job[j].tmp # NoPath)
      => /\ Canon(job[j].target) = Canon(MkvPath(j))
              => Canon(job[j].tmp) # Canon(MkvPath(j))
         /\ Canon(job[j].target) # Canon(MkvPath(j))
              => /\ Exists(fs, MkvPath(j))
                 /\ fs[Canon(MkvPath(j))] = fs0[Canon(MkvPath(j))]

\* The .srt beside the .ass file of job j.
SrtOutput(j) == with_suffix(AssPath(j), <<"srt">>)

\* C26: in to-srt, an .ass file that is gone was deleted in a run that is not
\* dry and has cleanup set, by a job that wrote the .srt and had no error; a
\* job whose conversion failed has its .ass file in place and counts
\* skipped_no_srt, never processed; a job whose .srt was there at the start
\* leaves both files as they were.
C26_AssDeletedOnlyAfterConversion ==
  \A j \in Files :
    opts.cmd = "to-srt"
      => /\ ~Exists(fs, AssPath(j))
              => /\ ~opts.dry_run
                 /\ opts.cleanup
                 /\ job[j].err = {}
                 /\ Exists(fs, SrtOutput(j))
                 /\ fs[SrtOutput(j)].by = j
                 /\ job[j].ctr = "processed" \/ "processed" \in Range(job[j].incs)
         /\ "convert" \in job[j].err
              => /\ fs[AssPath(j)] = fs0[AssPath(j)]
                 /\ job[j].ctr # "processed"
                 /\ "processed" \notin Range(job[j].incs)
                 /\ job[j].pc = "done" => job[j].incs = <<"total", "skipped_no_srt">>
         /\ Exists(fs0, SrtOutput(j))
              => /\ fs[AssPath(j)] = fs0[AssPath(j)]
                 /\ fs[SrtOutput(j)] = fs0[SrtOutput(j)]
                 /\ job[j].pc = "done" => job[j].incs = <<"total", "skipped_has_lang">>

\* C26's case: with cleanup set, one job converted and deleted its .ass file
\* and another's conversion failed, its .ass file still there.
C26_Witness ==
  /\ opts.cmd = "to-srt"
  /\ opts.cleanup
  /\ ~opts.dry_run
  /\ \E j \in Files :
       /\ job[j].pc = "done"
       /\ ~Exists(fs, AssPath(j))
       /\ fs[SrtOutput(j)].by = j
  /\ \E j \in Files :
       /\ job[j].pc = "done"
       /\ "convert" \in job[j].err
       /\ ~Exists(fs, SrtOutput(j))
       /\ Exists(fs, AssPath(j))

====
